---- MODULE Spec2Model ----
(***************************************************************************)
(* Model of the collaborative whiteboard client (src/src/App.jsx).         *)
(*                                                                         *)
(* Every participant runs one App component: a canvas, a STOMP client      *)
(* subscribed to /topic/whiteboard, a history fetch at mount, mouse        *)
(* handlers that paint and publish line segments, and a clear button.      *)
(* The broker and the history store are the back end the component talks   *)
(* to; they are modelled as the environment.                               *)
(*                                                                         *)
(* JavaScript runs each handler to completion, so one action is one        *)
(* handler (or one continuation after an await).  The effects a handler    *)
(* has on the outside world (renderer calls, publishes, HTTP requests,     *)
(* reported or raised errors) are appended, in program order, to log[c].   *)
(***************************************************************************)
EXTENDS Integers, Sequences, FiniteSets, TLC

(* ------------------------------ bounds -------------------------------- *)
\* Events of the run, in total: mouse-move samples that produce a segment,
\* clicks on clear, toolbar changes, envelopes of outside clients, failures
\* (a failed connect, a lost connection, a failed request) and unmounts.
MaxEvents == 2

(* --------------------------- program constants ------------------------ *)
SESSION_ID == "default-session"
DefaultColor == "#2D3748"
DefaultLineWidth == 4
DefaultTool == "draw"

(* ---------------------------- input domains --------------------------- *)
Users == {"u1", "u2"}             \* userId of each modelled participant
ForeignUser == "u9"               \* a participant outside the model
Artists == {"u1"}                 \* participants whose user draws and clears
OtherSession == "other-session"
Colors == {DefaultColor, "#FF0000"}
Widths == {DefaultLineWidth, 40}
Tools == {"draw", "erase"}
DownPoints == {<<2, 2>>}          \* (clientX, clientY) of mouse-down events
MovePoints == {<<3, 4>>, <<5, 2>>} \* (clientX, clientY) of mouse-move events
RectLeft == 1                     \* getBoundingClientRect().left
RectTop == 1                      \* getBoundingClientRect().top

Undefined == "undefined"          \* an absent string-valued JSON field
NoNum == -1                       \* an absent number-valued JSON field

VARIABLES
  phase,          \* [c]: "init" | "mounted" | "unmounted" (the effect's life)
  conn,           \* [c]: state of the STOMP client
  connectedUsers, \* [c]: the connectedUsers state
  hist,           \* [c]: state of loadHistory's GET
  resp,           \* [c]: res.data of the GET, once the store answered
  isDrawing,      \* [c]: the isDrawing state
  lastPos,        \* [c]: lastPos.current
  color,          \* [c]: the color state
  lineWidth,      \* [c]: the lineWidth state
  tool,           \* [c]: the tool state
  gesture,        \* [c]: ids of the segments of the current gesture
  log,            \* [c]: effects of the component, in program order
  inbox,          \* [c]: MESSAGE frames on their way to c's subscription
  store,          \* the history store's sequence for SESSION_ID
  deletes,        \* DELETE requests not yet answered
  topic,          \* the frames sent to /topic/whiteboard so far, in order
  missed,         \* [c]: segments sent while c, once subscribed, was cut off
  nextId,         \* next envelope identity
  count           \* events so far, by kind

lifeVars == <<phase, conn, connectedUsers>>
histVars == <<hist, resp>>
uiVars == <<isDrawing, lastPos, color, lineWidth, tool, gesture>>
netVars == <<inbox, store, deletes, topic, missed>>
vars == <<lifeVars, histVars, uiVars, netVars, log, nextId, count>>

\* The events of the run so far.
Total(n) == n.draw + n.clear + n.toolbar + n.foreign + n.fault + n.unmount

(* ------------------------------ envelopes ----------------------------- *)
\* The body of a draw publish: JSON.stringify of the object literal.
DrawEnvelope(uid, x1, y1, x2, y2, col, w, t, id) ==
  [type |-> "draw", sessionId |-> SESSION_ID, userId |-> uid,
   startX |-> x1, startY |-> y1, endX |-> x2, endY |-> y2,
   color |-> col, lineWidth |-> w, tool |-> t, id |-> id]

\* The body of a clear publish.
ClearEnvelope(uid, id) ==
  [type |-> "clear", sessionId |-> SESSION_ID, userId |-> uid,
   startX |-> NoNum, startY |-> NoNum, endX |-> NoNum, endY |-> NoNum,
   color |-> Undefined, lineWidth |-> NoNum, tool |-> Undefined, id |-> id]

(* ------------------------------ the log ------------------------------- *)
\* An effect that carries no segment.
Effect(op, via, id) ==
  [op |-> op, via |-> via, id |-> id,
   startX |-> NoNum, startY |-> NoNum, endX |-> NoNum, endY |-> NoNum,
   color |-> Undefined, lineWidth |-> NoNum, tool |-> Undefined]

\* A publish is logged with the fields of the envelope it sends.
PublishEffect(e) ==
  [op |-> IF e.type = "draw" THEN "publish draw" ELSE "publish clear",
   via |-> "local", id |-> e.id,
   startX |-> e.startX, startY |-> e.startY, endX |-> e.endX, endY |-> e.endY,
   color |-> e.color, lineWidth |-> e.lineWidth, tool |-> e.tool]

\* drawLine: a stroke from (x1, y1) to (x2, y2); the parameter toolType
\* defaults to "draw" when undefined is passed.
drawLine(via, id, x1, y1, x2, y2, strokeColor, strokeWidth, toolType) ==
  [op |-> "drawLine", via |-> via, id |-> id,
   startX |-> x1, startY |-> y1, endX |-> x2, endY |-> y2,
   color |-> strokeColor, lineWidth |-> strokeWidth,
   tool |-> IF toolType = Undefined THEN "draw" ELSE toolType]

\* clearCanvas: ctx.clearRect over the whole canvas.
clearCanvas(via, id) == Effect("clearRect", via, id)

Init ==
  /\ phase = [c \in Users |-> "init"]
  /\ conn = [c \in Users |-> "inactive"]
  /\ connectedUsers = [c \in Users |-> 1]
  /\ hist = [c \in Users |-> "idle"]
  /\ resp = [c \in Users |-> <<>>]
  /\ isDrawing = [c \in Users |-> FALSE]
  /\ lastPos = [c \in Users |-> [x |-> 0, y |-> 0]]
  /\ color = [c \in Users |-> DefaultColor]
  /\ lineWidth = [c \in Users |-> DefaultLineWidth]
  /\ tool = [c \in Users |-> DefaultTool]
  /\ gesture = [c \in Users |-> <<>>]
  /\ log = [c \in Users |-> <<>>]
  /\ inbox = [c \in Users |-> <<>>]
  /\ store = <<>>
  /\ deletes = {}
  /\ topic = <<>>
  /\ missed = [c \in Users |-> {}]
  /\ nextId = 1
  /\ count = [draw |-> 0, clear |-> 0, toolbar |-> 0, foreign |-> 0,
              fault |-> 0, unmount |-> 0]

(* -------------------------- mount and unmount ------------------------- *)
\* The effect: loadHistory() issues the GET and returns at its await;
\* client.activate() starts connecting without waiting for the GET.
Mount(c) ==
  /\ phase[c] = "init"
  /\ phase' = [phase EXCEPT ![c] = "mounted"]
  /\ hist' = [hist EXCEPT ![c] = "pending"]
  /\ conn' = [conn EXCEPT ![c] = "connecting"]
  /\ log' = [log EXCEPT ![c] = Append(@, Effect("GET", "mount", 0))]
  /\ UNCHANGED <<connectedUsers, resp, uiVars, netVars, nextId, count>>

\* deactivate() that leaves a reconnect timer running.
deactivateKeepingTimer(st) ==
  IF st \in {"connected", "deactivating"} THEN "deactivating"
  ELSE IF st = "waiting" THEN "waiting" ELSE "inactive"

\* client.deactivate() on a client in state st: an open socket starts
\* closing (and goes on closing if it already was), anything else (an
\* attempt, a reconnect timer) is cancelled.
deactivate(st) ==
  IF st \in {"connected", "deactivating"} THEN "deactivating" ELSE "inactive"

\* The cleanup: stompClientRef.current?.deactivate().  A connected client
\* sends DISCONNECT and keeps dispatching frames until the socket closes;
\* a pending connection attempt or reconnect timer is cancelled.  React
\* detaches the canvas, so canvasRef.current is null from here on.
Unmount(c) ==
  /\ phase[c] = "mounted"
  /\ Total(count) < MaxEvents
  /\ count' = [count EXCEPT !.unmount = @ + 1]
  /\ phase' = [phase EXCEPT ![c] = "unmounted"]
  /\ conn' = [conn EXCEPT ![c] = deactivate(@)]
  /\ UNCHANGED <<connectedUsers, histVars, uiVars, netVars, log, nextId>>

\* The socket of a deactivating client has closed.
DeactivateDone(c) ==
  /\ conn[c] = "deactivating"
  /\ conn' = [conn EXCEPT ![c] = "inactive"]
  /\ inbox' = [inbox EXCEPT ![c] = <<>>]
  /\ UNCHANGED <<phase, connectedUsers, histVars, uiVars, store, deletes,
                 topic, missed, log, nextId, count>>

(* ------------------------------ history ------------------------------- *)
\* The store answers the GET with the sequence it holds at that moment.
StoreAnswer(c) ==
  /\ hist[c] = "pending"
  /\ hist' = [hist EXCEPT ![c] = "answered"]
  /\ resp' = [resp EXCEPT ![c] = store]
  /\ UNCHANGED <<lifeVars, uiVars, netVars, log, nextId, count>>

\* The GET fails (store unreachable, error status).
StoreError(c) ==
  /\ hist[c] = "pending"
  /\ Total(count) < MaxEvents
  /\ count' = [count EXCEPT !.fault = @ + 1]
  /\ hist' = [hist EXCEPT ![c] = "errored"]
  /\ UNCHANGED <<lifeVars, resp, uiVars, netVars, log, nextId>>

\* The stored tool not passed on.
AlwaysDraw(t) == "draw"

\* e.tool || "draw"
ToolOrDraw(t) == IF t = Undefined THEN "draw" ELSE t

\* res.data.forEach((e) => drawLine(...)): one call per entry, in order.
Replay(data) ==
  [i \in 1..Len(data) |->
     drawLine("history", data[i].id, data[i].startX, data[i].startY,
              data[i].endX, data[i].endY, data[i].color, data[i].lineWidth,
              ToolOrDraw(data[i].tool))]

\* What the continuation of loadHistory does with a response: with the
\* canvas detached the first drawLine throws inside the try and the catch
\* reports it.
ReplayEffects(c, data) ==
  IF data = <<>> THEN <<>>
  ELSE IF phase[c] = "unmounted"
       THEN <<Effect("console.error", "history", 0)>>
       ELSE Replay(data)

\* loadHistory resumes after its await.
LoadHistoryResume(c) ==
  /\ hist[c] \in {"answered", "errored"}
  /\ IF hist[c] = "answered"
       THEN /\ log' = [log EXCEPT ![c] = @ \o ReplayEffects(c, resp[c])]
            /\ hist' = [hist EXCEPT ![c] = "done"]
       ELSE /\ log' = [log EXCEPT ![c] =
                         Append(@, Effect("console.error", "history", 0))]
            /\ hist' = [hist EXCEPT ![c] = "failed"]
  /\ resp' = [resp EXCEPT ![c] = <<>>]
  /\ UNCHANGED <<lifeVars, uiVars, netVars, nextId, count>>

(* ----------------------------- transport ------------------------------ *)
\* stompClientRef.current?.connected
Connected(c) == conn[c] \in {"connected", "deactivating"}

\* The connection established only once the history has been painted.
OnConnectAfterHistory(c) ==
  /\ conn[c] = "connecting"
  /\ hist[c] = "done"
  /\ conn' = [conn EXCEPT ![c] = "connected"]
  /\ connectedUsers' = [connectedUsers EXCEPT ![c] = @ + 1]
  /\ log' = [log EXCEPT ![c] = Append(@, Effect("subscribe", "onConnect", 0))]
  /\ UNCHANGED <<phase, histVars, uiVars, netVars, nextId, count>>

\* The connection is established: onConnect subscribes and counts.
OnConnect(c) ==
  /\ conn[c] = "connecting"
  /\ conn' = [conn EXCEPT ![c] = "connected"]
  /\ connectedUsers' = [connectedUsers EXCEPT ![c] = @ + 1]
  /\ log' = [log EXCEPT ![c] = Append(@, Effect("subscribe", "onConnect", 0))]
  /\ UNCHANGED <<phase, histVars, uiVars, netVars, nextId, count>>

\* A connection attempt fails: the client waits reconnectDelay.
ConnectFail(c) ==
  /\ conn[c] = "connecting"
  /\ Total(count) < MaxEvents
  /\ count' = [count EXCEPT !.fault = @ + 1]
  /\ conn' = [conn EXCEPT ![c] = "waiting"]
  /\ UNCHANGED <<phase, connectedUsers, histVars, uiVars, netVars, log,
                 nextId>>

\* The socket closes unexpectedly: frames on their way are lost and the
\* client waits reconnectDelay.
ConnectionLost(c) ==
  /\ conn[c] = "connected"
  /\ Total(count) < MaxEvents
  /\ count' = [count EXCEPT !.fault = @ + 1]
  /\ conn' = [conn EXCEPT ![c] = "waiting"]
  /\ inbox' = [inbox EXCEPT ![c] = <<>>]
  /\ UNCHANGED <<phase, connectedUsers, histVars, uiVars, store, deletes,
                 topic, missed, log, nextId>>

\* reconnectDelay: 0, which turns automatic reconnection off.
ReconnectDisabled(c) ==
  /\ FALSE
  /\ UNCHANGED vars

\* The reconnect timer fires (reconnectDelay: 5000).
Reconnect(c) ==
  /\ conn[c] = "waiting"
  /\ conn' = [conn EXCEPT ![c] = "connecting"]
  /\ UNCHANGED <<phase, connectedUsers, histVars, uiVars, netVars, log,
                 nextId, count>>

(* ------------------------------ back end ------------------------------ *)
\* The history store appends the draw segments of its session.
Persist(e) ==
  IF e.type = "draw" /\ e.sessionId = SESSION_ID THEN <<e>> ELSE <<>>

\* The back end handles the frames sent to /app/draw: each segment is
\* persisted and each frame is sent to every subscription of
\* /topic/whiteboard.  A frame's time on the way to the broker is part of
\* the time it spends in the inboxes.
StoreAfter(frames) ==
  IF frames = <<>> THEN store ELSE store \o Persist(frames[1])

InboxAfter(frames) ==
  [c \in Users |->
     IF conn[c] = "connected" THEN inbox[c] \o frames ELSE inbox[c]]

TopicAfter(frames) == topic \o frames

\* The segments a participant misses: those sent while it has no
\* subscription after having had one (it waits to reconnect or its new
\* attempt is under way).
MissedAfter(frames) ==
  [c \in Users |->
     IF conn[c] \in {"waiting", "connecting"}
        /\ \E r \in {log[c][i] : i \in DOMAIN log[c]} : r.op = "subscribe"
       THEN missed[c] \cup {frames[i].id : i \in {j \in DOMAIN frames :
                                                  frames[j].type = "draw"}}
       ELSE missed[c]]

\* publish without the guard.
PublishAlways(c, e) == <<e>>

\* publish behind the guard `stompClientRef.current?.connected &&`:
\* the frames that reach /app/draw.
Publish(c, e) ==
  IF Connected(c) THEN <<e>> ELSE <<>>

PublishLog(c, e) ==
  [i \in 1..Len(Publish(c, e)) |-> PublishEffect(Publish(c, e)[i])]

(* -------------------------- inbound dispatch -------------------------- *)
\* The echo test applied to draw envelopes only.
IsEchoOfDraw(c, data) == data.userId = c /\ data.type = "draw"

\* if (data.userId === userId) return;
IsEcho(c, data) == data.userId = c

\* The draw branch without the tool argument.
DispatchWithoutTool(data) ==
  (IF data.type = "draw"
     THEN <<drawLine("inbound", data.id, data.startX, data.startY, data.endX,
                     data.endY, data.color, data.lineWidth, Undefined)>>
     ELSE <<>>)
  \o
  (IF data.type = "clear" THEN <<clearCanvas("inbound", data.id)>> ELSE <<>>)

\* The clear branch as the else of the draw branch.
DispatchElseClear(data) ==
  IF data.type = "draw"
    THEN <<drawLine("inbound", data.id, data.startX, data.startY, data.endX,
                    data.endY, data.color, data.lineWidth, data.tool)>>
    ELSE <<clearCanvas("inbound", data.id)>>

\* The clear branch calling the button's handler instead of clearCanvas.
DispatchViaHandleClear(data) ==
  (IF data.type = "draw"
     THEN <<drawLine("inbound", data.id, data.startX, data.startY, data.endX,
                     data.endY, data.color, data.lineWidth, data.tool)>>
     ELSE <<>>)
  \o
  (IF data.type = "clear"
     THEN <<clearCanvas("inbound", data.id),
            Effect("publish clear", "inbound", data.id),
            Effect("DELETE", "inbound", data.id)>>
     ELSE <<>>)

\* The two ifs on data.type, for an envelope that is not an echo.
Dispatch(data) ==
  (IF data.type = "draw"
     THEN <<drawLine("inbound", data.id, data.startX, data.startY, data.endX,
                     data.endY, data.color, data.lineWidth, data.tool)>>
     ELSE <<>>)
  \o
  (IF data.type = "clear" THEN <<clearCanvas("inbound", data.id)>> ELSE <<>>)

\* The subscription callback.  With the canvas detached, drawLine and
\* clearCanvas throw on canvasRef.current before any renderer call.
OnMessage(c, data) ==
  IF IsEcho(c, data) THEN <<>>
  ELSE IF Dispatch(data) = <<>> THEN <<>>
  ELSE IF phase[c] = "unmounted"
       THEN <<Effect("throw", "inbound", data.id)>>
       ELSE Dispatch(data)

\* A MESSAGE frame reaches the subscription of c: the callback is invoked
\* (logged as "onMessage") and runs to completion.
Deliver(c) ==
  /\ Connected(c)
  /\ inbox[c] # <<>>
  /\ log' = [log EXCEPT ![c] =
               Append(@, Effect("onMessage", "inbound", Head(inbox[c]).id))
               \o OnMessage(c, Head(inbox[c]))]
  /\ inbox' = [inbox EXCEPT ![c] = Tail(@)]
  /\ UNCHANGED <<lifeVars, histVars, uiVars, store, deletes, topic, missed,
                 nextId, count>>

(* ------------------------------ gestures ------------------------------ *)
\* e.clientX - rect.left, e.clientY - rect.top
CanvasPos(p) == [x |-> p[1] - RectLeft, y |-> p[2] - RectTop]

\* onMouseDown without the reset of the anchor.
startDrawingKeepingAnchor(c, p) ==
  /\ phase[c] = "mounted"
  /\ isDrawing' = [isDrawing EXCEPT ![c] = TRUE]
  /\ gesture' = [gesture EXCEPT ![c] = <<>>]
  /\ UNCHANGED <<lifeVars, histVars, lastPos, color, lineWidth, tool, netVars,
                 log, nextId, count>>

\* onMouseDown
startDrawing(c, p) ==
  /\ phase[c] = "mounted"
  /\ isDrawing' = [isDrawing EXCEPT ![c] = TRUE]
  /\ lastPos' = [lastPos EXCEPT ![c] = CanvasPos(p)]
  /\ gesture' = [gesture EXCEPT ![c] = <<>>]
  /\ UNCHANGED <<lifeVars, histVars, color, lineWidth, tool, netVars, log,
                 nextId, count>>

\* The segment a mouse-move sample produces: from the anchor to the sample.
Segment(c, p, id) ==
  DrawEnvelope(c, lastPos[c].x, lastPos[c].y, CanvasPos(p).x, CanvasPos(p).y,
               color[c], lineWidth[c], tool[c], id)

\* The publish ahead of the paint.
DrawEffectsPublishFirst(c, e) ==
  PublishLog(c, e)
  \o <<drawLine("local", e.id, e.startX, e.startY, e.endX, e.endY, e.color,
               e.lineWidth, e.tool)>>

\* What draw does with the segment: paint, then publish if connected.
DrawEffects(c, e) ==
  <<drawLine("local", e.id, e.startX, e.startY, e.endX, e.endY, e.color,
             e.lineWidth, e.tool)>>
  \o PublishLog(c, e)

\* The anchor left where it was.
KeepAnchor(c, p) == lastPos[c]

\* lastPos.current = currentPos
NextAnchor(c, p) == CanvasPos(p)

\* onMouseMove
draw(c, p) ==
  /\ phase[c] = "mounted"
  /\ isDrawing[c]
  /\ Total(count) < MaxEvents
  /\ count' = [count EXCEPT !.draw = @ + 1]
  /\ LET e == Segment(c, p, nextId) IN
       /\ log' = [log EXCEPT ![c] = @ \o DrawEffects(c, e)]
       /\ store' = StoreAfter(Publish(c, e))
       /\ inbox' = InboxAfter(Publish(c, e))
       /\ topic' = TopicAfter(Publish(c, e))
       /\ missed' = MissedAfter(Publish(c, e))
  /\ lastPos' = [lastPos EXCEPT ![c] = NextAnchor(c, p)]
  /\ gesture' = [gesture EXCEPT ![c] = Append(@, nextId)]
  /\ nextId' = nextId + 1
  /\ UNCHANGED <<lifeVars, histVars, isDrawing, color, lineWidth, tool,
                 deletes>>

\* onMouseUp, onMouseLeave
stopDrawing(c) ==
  /\ phase[c] = "mounted"
  /\ isDrawing[c]
  /\ isDrawing' = [isDrawing EXCEPT ![c] = FALSE]
  /\ gesture' = [gesture EXCEPT ![c] = <<>>]
  /\ UNCHANGED <<lifeVars, histVars, lastPos, color, lineWidth, tool,
                 netVars, log, nextId, count>>

(* ------------------------------- clear -------------------------------- *)
\* The DELETE behind the guard of the publish.
ClearEffectsGuarded(c, id) ==
  <<clearCanvas("local", id)>>
  \o PublishLog(c, ClearEnvelope(c, id))
  \o (IF Connected(c) THEN <<Effect("DELETE", "local", id)>> ELSE <<>>)

\* handleClear up to its await: wipe, publish if connected, send DELETE.
ClearEffects(c, id) ==
  <<clearCanvas("local", id)>>
  \o PublishLog(c, ClearEnvelope(c, id))
  \o <<Effect("DELETE", "local", id)>>

\* The clear button.
handleClear(c) ==
  /\ phase[c] = "mounted"
  /\ Total(count) < MaxEvents
  /\ count' = [count EXCEPT !.clear = @ + 1]
  /\ log' = [log EXCEPT ![c] = @ \o ClearEffects(c, nextId)]
  /\ store' = StoreAfter(Publish(c, ClearEnvelope(c, nextId)))
  /\ inbox' = InboxAfter(Publish(c, ClearEnvelope(c, nextId)))
  /\ topic' = TopicAfter(Publish(c, ClearEnvelope(c, nextId)))
  /\ missed' = MissedAfter(Publish(c, ClearEnvelope(c, nextId)))
  /\ deletes' = deletes \cup {[by |-> c, id |-> nextId]}
  /\ nextId' = nextId + 1
  /\ UNCHANGED <<lifeVars, histVars, uiVars>>

\* The store drops the session's history and acknowledges.
StoreDelete ==
  \E d \in deletes :
    /\ deletes' = deletes \ {d}
    /\ store' = <<>>
    /\ UNCHANGED <<lifeVars, histVars, uiVars, inbox, topic, missed, log,
                   nextId, count>>

\* The DELETE fails inside a try whose catch only reports the error.
StoreDeleteFailCaught ==
  \E d \in deletes :
    /\ Total(count) < MaxEvents
    /\ count' = [count EXCEPT !.fault = @ + 1]
    /\ deletes' = deletes \ {d}
    /\ log' = [log EXCEPT ![d.by] =
                 Append(@, Effect("console.error", "local", d.id))]
    /\ UNCHANGED <<lifeVars, histVars, uiVars, inbox, store, topic, missed,
                   nextId>>

\* The DELETE fails: the await in handleClear throws and the promise
\* handleClear returned is rejected.
StoreDeleteFail ==
  \E d \in deletes :
    /\ Total(count) < MaxEvents
    /\ count' = [count EXCEPT !.fault = @ + 1]
    /\ deletes' = deletes \ {d}
    /\ log' = [log EXCEPT ![d.by] = Append(@, Effect("reject", "local", d.id))]
    /\ UNCHANGED <<lifeVars, histVars, uiVars, inbox, store, topic, missed,
                   nextId>>

(* ------------------------------ toolbar ------------------------------- *)
\* The brush range input.
setLineWidth(c, w) ==
  /\ phase[c] = "mounted"
  /\ Total(count) < MaxEvents
  /\ w # lineWidth[c]
  /\ count' = [count EXCEPT !.toolbar = @ + 1]
  /\ lineWidth' = [lineWidth EXCEPT ![c] = w]
  /\ UNCHANGED <<lifeVars, histVars, isDrawing, lastPos, color, tool,
                 gesture, netVars, log, nextId>>

\* The color input: setColor(value); setTool("draw")
setColor(c, col) ==
  /\ phase[c] = "mounted"
  /\ Total(count) < MaxEvents
  /\ col # color[c]
  /\ count' = [count EXCEPT !.toolbar = @ + 1]
  /\ color' = [color EXCEPT ![c] = col]
  /\ tool' = [tool EXCEPT ![c] = "draw"]
  /\ UNCHANGED <<lifeVars, histVars, isDrawing, lastPos, lineWidth, gesture,
                 netVars, log, nextId>>

\* The Draw and Eraser buttons.
setTool(c, t) ==
  /\ phase[c] = "mounted"
  /\ Total(count) < MaxEvents
  /\ t # tool[c]
  /\ count' = [count EXCEPT !.toolbar = @ + 1]
  /\ tool' = [tool EXCEPT ![c] = t]
  /\ UNCHANGED <<lifeVars, histVars, isDrawing, lastPos, color, lineWidth,
                 gesture, netVars, log, nextId>>

(* ------------------------------- peers -------------------------------- *)
\* Envelopes a client outside the model may publish: another session's
\* traffic, a draw without the tool field, unknown and absent types.
ForeignEnvelopes(id) ==
  { [DrawEnvelope(ForeignUser, 0, 0, 2, 3, "#FF0000", 40, Undefined, id)
       EXCEPT !.sessionId = s] : s \in {SESSION_ID, OtherSession} }
  \cup { [ClearEnvelope(ForeignUser, id) EXCEPT !.type = t] :
           t \in {"ping", Undefined} }

\* A client outside the model publishes an envelope.
ForeignPublish ==
  \E e \in ForeignEnvelopes(nextId) :
    /\ Total(count) < MaxEvents
    /\ count' = [count EXCEPT !.foreign = @ + 1]
    /\ store' = StoreAfter(<<e>>)
    /\ inbox' = InboxAfter(<<e>>)
    /\ topic' = TopicAfter(<<e>>)
    /\ missed' = MissedAfter(<<e>>)
    /\ nextId' = nextId + 1
    /\ UNCHANGED <<lifeVars, histVars, uiVars, deletes, log>>

(* --------------------------- specification ---------------------------- *)
Next ==
  \/ \E c \in Users : Mount(c)
  \/ \E c \in Users : Unmount(c)
  \/ \E c \in Users : DeactivateDone(c)
  \/ \E c \in Users : StoreAnswer(c)
  \/ \E c \in Users : StoreError(c)
  \/ \E c \in Users : LoadHistoryResume(c)
  \/ \E c \in Users : OnConnect(c)
  \/ \E c \in Users : ConnectFail(c)
  \/ \E c \in Users : ConnectionLost(c)
  \/ \E c \in Users : Reconnect(c)
  \/ \E c \in Users : Deliver(c)
  \/ \E c \in Artists, p \in DownPoints : startDrawing(c, p)
  \/ \E c \in Artists, p \in MovePoints : draw(c, p)
  \/ \E c \in Artists : stopDrawing(c)
  \/ \E c \in Artists : handleClear(c)
  \/ StoreDelete
  \/ StoreDeleteFail
  \/ \E c \in Artists, w \in Widths : setLineWidth(c, w)
  \/ \E c \in Artists, col \in Colors : setColor(c, col)
  \/ \E c \in Artists, t \in Tools : setTool(c, t)
  \/ ForeignPublish

Spec == Init /\ [][Next]_vars

\* The scheduling the liveness of the transport rests on: a reconnect timer
\* that was set fires; a connection attempt to a reachable broker ends (the
\* failures of a run are bounded, so the broker becomes and stays
\* reachable); the event loop runs the callback of a frame that arrived.
Fairness ==
  \A c \in Users :
    /\ WF_vars(Reconnect(c))
    /\ WF_vars(OnConnect(c))
    /\ WF_vars(Deliver(c))

LiveSpec == Init /\ [][Next]_vars /\ Fairness

(* ------------------------- reading the state -------------------------- *)
Range(f) == {f[i] : i \in DOMAIN f}

IsRender(r) == r.op \in {"drawLine", "clearRect"}

\* Positions of log[c] holding an effect with the given op, origin and id.
At(c, op, via, id) ==
  {i \in DOMAIN log[c] :
     log[c][i].op = op /\ log[c][i].via = via /\ log[c][i].id = id}

\* The identities of the segments and clears c's own handlers produced.
Own(c) == {r.id : r \in {q \in Range(log[c]) : q.via = "local"}}

\* The frame with a given identity on the topic.
Sent(id) == CHOOSE e \in Range(topic) : e.id = id
WasSent(id) == \E e \in Range(topic) : e.id = id

\* The seven arguments of a drawLine call.
Args(r) == <<r.startX, r.startY, r.endX, r.endY, r.color, r.lineWidth, r.tool>>

\* The callback invocations of c, as positions of log[c].
Invocations(c) == {i \in DOMAIN log[c] : log[c][i].op = "onMessage"}

\* The effects of the invocation at position i: the entries up to the next
\* entry that is not an effect of the subscription callback.
EffectsOf(c, i) ==
  {j \in DOMAIN log[c] :
     /\ j > i
     /\ log[c][j].via = "inbound"
     /\ log[c][j].op # "onMessage"
     /\ \A k \in i+1..j : log[c][k].via = "inbound" /\ log[c][k].op # "onMessage"}

(* ------------------------------- claims ------------------------------- *)
\* C1 (echo suppression): an envelope delivered to the subscription
\* callback whose userId is the local userId, draw or clear, causes no
\* renderer call: the invocation has no effect at all.
EchoSuppression ==
  \A c \in Users : \A i \in Invocations(c) :
    Sent(log[c][i].id).userId = c => EffectsOf(c, i) = {}

\* Both a draw echo and a clear echo have been dispatched to their sender.
EchoSuppressionWitness ==
  \E c \in Users : \E i, j \in Invocations(c) :
    /\ Sent(log[c][i].id).userId = c /\ Sent(log[c][i].id).type = "draw"
    /\ Sent(log[c][j].id).userId = c /\ Sent(log[c][j].id).type = "clear"

\* C2 (two-participant delivery): a segment A's draw handler produced and
\* published is painted on A exactly once by the draw handler and never by
\* A's inbound dispatch; every delivery of its envelope to another mounted
\* participant B causes exactly one drawLine there, with the same startX,
\* startY, endX, endY, color, lineWidth and tool as A's paint.
Painted(c, id) == log[c][CHOOSE i \in At(c, "drawLine", "local", id) : TRUE]

ReplayBeforeLive ==
  \A c \in Users :
    hist[c] = "answered" =>
      \A r \in Range(log[c]) : ~(IsRender(r) /\ r.via = "inbound")

\* The joiner is mounted, its history is painted, it is connected and no
\* frame is on its way to it.
Settled(c) ==
  /\ phase[c] = "mounted"
  /\ hist[c] = "done"
  /\ conn[c] = "connected"
  /\ inbox[c] = <<>>

\* C4 (no gaps, no duplicate paint): in a run without clear, failure or
\* unmount, a settled joiner has painted every persisted segment of a peer
\* exactly once.
ExactlyOncePaint ==
  \A c \in Users :
    (Settled(c) /\ count.clear = 0 /\ count.fault = 0 /\ count.unmount = 0) =>
      \A e \in Range(store) :
        e.userId # c =>
          Cardinality({i \in DOMAIN log[c] :
                         log[c][i].op = "drawLine" /\ log[c][i].id = e.id}) = 1

\* The segments on a surface: the drawLine calls since the last wipe.
IsLine(r) == r.op = "drawLine"
IsWipe(r) == r.op = "clearRect"
IsDrawFrame(e) == e.type = "draw"
IsClearFrame(e) == e.type = "clear"

Last(S) == IF S = {} THEN 0 ELSE CHOOSE i \in S : \A j \in S : j <= i

Surface(c) ==
  LET from == Last({i \in DOMAIN log[c] : IsWipe(log[c][i])}) + 1
      lines == SelectSeq(SubSeq(log[c], from, Len(log[c])), IsLine)
  IN [k \in 1..Len(lines) |-> <<lines[k].id, Args(lines[k])>>]

\* The surface of an observer subscribed since the session started: it
\* dispatched every frame of the topic.
Board ==
  LET from == Last({i \in DOMAIN topic : IsClearFrame(topic[i])}) + 1
      draws == SelectSeq(SubSeq(topic, from, Len(topic)), IsDrawFrame)
  IN [k \in 1..Len(draws) |->
        <<draws[k].id, Args(Dispatch(draws[k])[1])>>]

\* C5 (late-join equivalence): in a run without failure or unmount, the
\* surface of a settled joiner that drew nothing itself equals the surface
\* of an observer present since the session started.
LateJoinEquivalence ==
  \A c \in Users :
    (Settled(c) /\ Own(c) = {} /\ count.fault = 0 /\ count.unmount = 0) =>
      Surface(c) = Board

\* C6 (disconnected no-op): a draw sample or a clear handled while the
\* transport is not connected sends nothing to the broker and logs only
\* the local paint or wipe (and the DELETE of a clear), no error; and a
\* frame of a participant reaches the topic only in the step of the handler
\* that produced it, with the transport connected: nothing is queued and
\* sent later.
DisconnectedNoOp ==
  /\ [][\A c \in Artists :
          (~Connected(c) /\ ((\E p \in MovePoints : draw(c, p)) \/ handleClear(c)))
            => /\ topic' = topic /\ inbox' = inbox /\ store' = store
               /\ \A i \in DOMAIN log'[c] \ DOMAIN log[c] :
                    log'[c][i].op \in {"drawLine", "clearRect", "DELETE"}]_vars
  /\ [][\A e \in Range(topic') \ Range(topic) :
          e.userId \in Users => (e.id = nextId /\ Connected(e.userId))]_vars

\* u1 drew while not connected, connected later and then published a
\* younger envelope; the older one never reached the topic.
DisconnectedNoOpWitness ==
  \E id, id2 \in Own("u1") :
    /\ id < id2
    /\ At("u1", "drawLine", "local", id) # {}
    /\ ~WasSent(id)
    /\ WasSent(id2)

\* C7 (order preservation): within the current gesture every segment
\* starts where the previous one ended, in the calls of drawLine and in
\* the published envelopes, which carry the painted coordinates.
OrderPreservation ==
  \A c \in Users :
    /\ \A k \in 1..Len(gesture[c]) :
         \A j \in At(c, "publish draw", "local", gesture[c][k]) :
           Args(log[c][j]) = Args(Painted(c, gesture[c][k]))
    /\ \A k \in 2..Len(gesture[c]) :
         LET prev == Painted(c, gesture[c][k - 1])
             cur == Painted(c, gesture[c][k])
         IN /\ cur.startX = prev.endX /\ cur.startY = prev.endY
            /\ \A j \in At(c, "publish draw", "local", gesture[c][k]) :
                 /\ log[c][j].startX = prev.endX
                 /\ log[c][j].startY = prev.endY

\* A gesture of two segments, both published.
OrderPreservationWitness ==
  /\ Len(gesture["u1"]) = 2
  /\ \A k \in 1..2 : At("u1", "publish draw", "local", gesture["u1"][k]) # {}

\* C8 (session isolation): an envelope whose sessionId is not the client's
\* session causes no renderer call when dispatched.
SessionIsolation ==
  \A c \in Users : \A i \in Invocations(c) :
    Sent(log[c][i].id).sessionId # SESSION_ID =>
      \A j \in EffectsOf(c, i) : ~IsRender(log[c][j])

\* C9 (clear action): handleClear wipes first, then publishes a clear
\* envelope with the participant's userId exactly if connected, then sends
\* the DELETE, connected or not; the envelope goes to every connected
\* participant, and each mounted participant other than the sender wipes
\* when it is dispatched.
ClearAction ==
  /\ [][\A c \in Artists :
          handleClear(c) =>
            LET new == SubSeq(log'[c], Len(log[c]) + 1, Len(log'[c])) IN
              /\ new[1].op = "clearRect" /\ new[1].id = nextId
              /\ new[Len(new)].op = "DELETE" /\ new[Len(new)].id = nextId
              /\ [by |-> c, id |-> nextId] \in deletes'
              /\ IF Connected(c)
                   THEN /\ Len(new) = 3
                        /\ new[2].op = "publish clear" /\ new[2].id = nextId
                        /\ topic' = Append(topic, ClearEnvelope(c, nextId))
                        /\ \A b \in Users :
                             conn[b] = "connected" =>
                               inbox'[b] = Append(inbox[b], ClearEnvelope(c, nextId))
                   ELSE Len(new) = 2 /\ topic' = topic]_vars
  /\ [](\A b \in Users : \A i \in Invocations(b) :
          (/\ Sent(log[b][i].id).type = "clear"
           /\ Sent(log[b][i].id).userId # b
           /\ phase[b] = "mounted") =>
             /\ EffectsOf(b, i) = {i + 1}
             /\ log[b][i + 1].op = "clearRect")

\* u1 cleared once while not connected (wipe and DELETE, no publish) and
\* once connected, and the second clear wiped u2.
ClearActionWitness ==
  \E id, id2 \in Own("u1") :
    /\ At("u1", "clearRect", "local", id) # {}
    /\ At("u1", "DELETE", "local", id) # {}
    /\ ~WasSent(id)
    /\ At("u1", "DELETE", "local", id2) # {}
    /\ At("u2", "clearRect", "inbound", id2) # {}

\* C10 (malformed drop): dispatching an envelope of another user whose type
\* is absent or neither "draw" nor "clear" only consumes the frame: no
\* renderer call, no publish, no error, every other variable unchanged;
\* and envelopes dispatched after it still have their effect.
Malformed(e) == e.type \notin {"draw", "clear"}

MalformedDrop ==
  /\ [][\A c \in Users :
          (Deliver(c) /\ Head(inbox[c]).userId # c /\ Malformed(Head(inbox[c])))
            => /\ log'[c] = Append(log[c], Effect("onMessage", "inbound",
                                                   Head(inbox[c]).id))
               /\ UNCHANGED <<lifeVars, histVars, uiVars, store, deletes,
                              topic, missed, nextId, count>>]_vars
  /\ [](\A c \in Users : \A i, j \in Invocations(c) :
          (/\ i < j
           /\ Malformed(Sent(log[c][i].id))
           /\ ~Malformed(Sent(log[c][j].id))
           /\ Sent(log[c][j].id).userId # c
           /\ phase[c] = "mounted") =>
             /\ EffectsOf(c, i) = {}
             /\ EffectsOf(c, j) = {j + 1}
             /\ IsRender(log[c][j + 1]))

\* u2 dispatched a malformed envelope and, after it, a draw that it painted.
MalformedDropWitness ==
  \E i, j \in Invocations("u2") :
    /\ i < j
    /\ Malformed(Sent(log["u2"][i].id))
    /\ Sent(log["u2"][j].id).type = "draw"
    /\ j + 1 \in DOMAIN log["u2"] /\ log["u2"][j + 1].op = "drawLine"

\* C11 (history failure never blocks Live): while the history fetch is
\* unanswered or has failed, nothing is painted from history and nothing is
\* raised; a failure is reported once, by console.error; the transport was
\* activated at mount, and establishing the connection, subscribing and
\* dispatching inbound envelopes stay possible whatever the fetch did.
HistoryUnresolved(c) == hist[c] \in {"pending", "errored", "failed"}

FromHistory(c) == {i \in DOMAIN log[c] : log[c][i].via = "history"}

HistoryFailureNeverBlocks ==
  \A c \in Users :
    /\ hist[c] \in {"pending", "errored"} => FromHistory(c) = {}
    /\ hist[c] = "failed" =>
         /\ Cardinality(FromHistory(c)) = 1
         /\ \A i \in FromHistory(c) : log[c][i].op = "console.error"
    /\ HistoryUnresolved(c) =>
         /\ At(c, "GET", "mount", 0) # {}
         /\ (phase[c] = "mounted" /\ conn[c] # "waiting") =>
              (conn[c] = "connecting" \/ At(c, "subscribe", "onConnect", 0) # {})
         /\ conn[c] = "connecting" => ENABLED OnConnect(c)
         /\ (Connected(c) /\ inbox[c] # <<>>) => ENABLED Deliver(c)

\* One participant reported a failed fetch and afterwards painted a peer's
\* segment; another painted one while its fetch was still unanswered.
HistoryFailureNeverBlocksWitness ==
  /\ \E c \in Users : \E i, j \in DOMAIN log[c] :
       /\ hist[c] = "failed"
       /\ i < j
       /\ log[c][i].op = "console.error"
       /\ log[c][j].op = "drawLine" /\ log[c][j].via = "inbound"
  /\ \E c \in Users :
       /\ hist[c] = "pending"
       /\ \E r \in Range(log[c]) : r.op = "drawLine" /\ r.via = "inbound"

\* C12 (reconnection liveness): a client that lost its connection, or whose
\* attempt failed, and that is not deactivated is eventually connected
\* again, however many attempts it takes, and every step that connects it
\* subscribes anew; a frame on its way to a client is eventually dispatched
\* unless the connection is lost or deactivated first: frames leave the
\* inbox only at its head, by dispatch, or all at once with the connection.
Subscriptions(c) == Cardinality(At(c, "subscribe", "onConnect", 0))

ReconnectionLiveness ==
  /\ \A c \in Users :
       conn[c] = "waiting" ~> (phase[c] = "unmounted" \/ conn[c] = "connected")
  /\ \A c \in Users : inbox[c] # <<>> ~> inbox[c] = <<>>
  /\ [][\A c \in Users :
          (conn[c] # "connected" /\ conn'[c] = "connected") =>
            /\ conn[c] = "connecting"
            /\ log'[c] = Append(log[c], Effect("subscribe", "onConnect", 0))]_vars
  /\ [][\A c \in Users :
          (inbox[c] # <<>> /\ Len(inbox'[c]) < Len(inbox[c])) =>
            \/ /\ inbox'[c] = Tail(inbox[c])
               /\ Len(log'[c]) > Len(log[c])
               /\ log'[c][Len(log[c]) + 1] =
                    Effect("onMessage", "inbound", Head(inbox[c]).id)
            \/ /\ inbox'[c] = <<>>
               /\ conn'[c] \in {"waiting", "inactive"}]_vars

\* A participant lost its connection, subscribed a second time and then
\* painted a peer's segment.
ReconnectionLivenessWitness ==
  \E c \in Users : \E i, j \in DOMAIN log[c] :
    /\ Subscriptions(c) = 2
    /\ i < j
    /\ log[c][i].op = "subscribe"
    /\ At(c, "subscribe", "onConnect", 0) \cap (1..(i - 1)) # {}
    /\ log[c][j].op = "drawLine" /\ log[c][j].via = "inbound"

\* C13 (replay fidelity): painting a history response on a mounted canvas
\* appends exactly one drawLine call per stored segment, in stored order,
\* with the stored coordinates, color and width and with the stored tool
\* ("draw" for a segment stored without one), and changes nothing else; the
\* calls are a function of the response alone, so the same response yields
\* the same calls each time.
ReplayFidelity ==
  [][\A c \in Users :
       (LoadHistoryResume(c) /\ hist[c] = "answered" /\ phase[c] = "mounted") =>
         /\ Len(log'[c]) = Len(log[c]) + Len(resp[c])
         /\ SubSeq(log'[c], 1, Len(log[c])) = log[c]
         /\ \A k \in 1..Len(resp[c]) :
              LET r == log'[c][Len(log[c]) + k]
                  e == resp[c][k]
              IN /\ r.op = "drawLine" /\ r.via = "history" /\ r.id = e.id
                 /\ <<r.startX, r.startY, r.endX, r.endY, r.color, r.lineWidth>>
                      = <<e.startX, e.startY, e.endX, e.endY, e.color, e.lineWidth>>
                 /\ r.tool = IF e.tool \in Tools THEN e.tool ELSE "draw"
         /\ \A d \in Users \ {c} : log'[d] = log[d]]_vars

\* The calls c made from history.
HistoryCalls(c) == SelectSeq(log[c], LAMBDA r : r.via = "history")

\* u2 replayed a stored gesture of two segments in stored order.
ReplayFidelityWitness ==
  /\ Len(HistoryCalls("u2")) = 2
  /\ Len(store) = 2
  /\ \A k \in 1..2 : HistoryCalls("u2")[k].id = store[k].id
  /\ HistoryCalls("u2")[1].endX = HistoryCalls("u2")[2].startX
  /\ HistoryCalls("u2")[1].id < HistoryCalls("u2")[2].id

\* C14 (optimistic local rendering): every mouse-move sample handled
\* during a gesture is painted at once, from the anchor to the sample with
\* the current color, width and tool, whatever the state of the transport;
\* the paint is the first effect of the handler and the publish, if any,
\* follows it: every publish in the log comes right after the paint of the
\* same segment.
OptimisticRendering ==
  /\ [][\A c \in Artists : \A p \in MovePoints :
          draw(c, p) =>
            /\ Len(log'[c]) > Len(log[c])
            /\ log'[c][Len(log[c]) + 1] =
                 drawLine("local", nextId, lastPos[c].x, lastPos[c].y,
                          CanvasPos(p).x, CanvasPos(p).y, color[c],
                          lineWidth[c], tool[c])
            /\ Len(log'[c]) = Len(log[c]) + (IF Connected(c) THEN 2 ELSE 1)]_vars
  /\ [](\A c \in Users : \A j \in DOMAIN log[c] :
          log[c][j].op = "publish draw" =>
            /\ j > 1
            /\ log[c][j - 1].op = "drawLine" /\ log[c][j - 1].via = "local"
            /\ log[c][j - 1].id = log[c][j].id)

\* u1 painted a sample while not connected (nothing published) and the next
\* one connected (paint, then publish).
OptimisticRenderingWitness ==
  \E i, j \in DOMAIN log["u1"] :
    /\ i < j
    /\ j + 1 \in DOMAIN log["u1"]
    /\ log["u1"][i].op = "drawLine" /\ log["u1"][i].via = "local"
    /\ ~WasSent(log["u1"][i].id)
    /\ log["u1"][j].op = "drawLine" /\ log["u1"][j].via = "local"
    /\ log["u1"][j + 1].op = "publish draw"
    /\ log["u1"][j + 1].id = log["u1"][j].id

\* C15 (late history response ignored): once the client has subscribed (it
\* is Live, or Disconnected afterwards), no renderer call is made from a
\* history response.
LateHistoryIgnored ==
  \A c \in Users : \A i, j \in DOMAIN log[c] :
    (i < j /\ log[c][i].op = "subscribe") =>
      ~(IsRender(log[c][j]) /\ log[c][j].via = "history")

\* C16 (teardown): once the cleanup has run the client is inactive or
\* closing its socket, and running deactivate again would change nothing;
\* from then on it never starts connecting, waits for no reconnection,
\* never connects or subscribes, and none of its steps calls the renderer,
\* whether the cleanup found it connected, connecting or waiting to
\* reconnect.
Teardown ==
  /\ [](\A c \in Users :
          phase[c] = "unmounted" =>
            /\ conn[c] \in {"deactivating", "inactive"}
            /\ deactivate(conn[c]) = conn[c])
  /\ [][\A c \in Users :
          phase[c] = "unmounted" =>
            /\ phase'[c] = "unmounted"
            /\ conn'[c] \in {conn[c], "inactive"}
            /\ connectedUsers'[c] = connectedUsers[c]
            /\ \A i \in DOMAIN log'[c] \ DOMAIN log[c] :
                 /\ ~IsRender(log'[c][i])
                 /\ log'[c][i].op \notin {"subscribe", "GET"}]_vars

\* A participant whose first connection attempt had failed was unmounted
\* before it ever connected, and is inactive.
TeardownWitness ==
  \E c \in Users :
    /\ phase[c] = "unmounted"
    /\ conn[c] = "inactive"
    /\ Subscriptions(c) = 0
    /\ count.fault = 1
    /\ hist[c] \notin {"errored", "failed"}
    /\ \A d \in Users \ {c} : phase[d] = "init"

\* C17 (no replay on reconnection): a client issues the history GET once,
\* at mount and before anything else, and never again; and a segment a peer
\* sent while the client, once subscribed, was cut off from the broker is
\* never painted on it.
NoReplayOnReconnection ==
  \A c \in Users :
    /\ {i \in DOMAIN log[c] : log[c][i].op = "GET"} \subseteq {1}
    /\ \A id \in missed[c] :
         \A r \in Range(log[c]) : ~(r.op = "drawLine" /\ r.id = id)

\* C18 (only local user actions have outbound effects): painting a history
\* response and dispatching an inbound frame send nothing to the broker and
\* nothing to the store and log only the callback, paints, wipes and
\* errors; every publish and every DELETE in a log comes from a local
\* handler, and the only GET is the one of mount.
Outbound(r) == r.op \in {"publish draw", "publish clear", "DELETE", "GET"}

OnlyLocalOutbound ==
  /\ [][\A c \in Users :
          (LoadHistoryResume(c) \/ Deliver(c)) =>
            /\ UNCHANGED <<topic, store, deletes, missed, nextId>>
            /\ \A d \in Users \ {c} : inbox'[d] = inbox[d]
            /\ inbox'[c] = IF Deliver(c) THEN Tail(inbox[c]) ELSE inbox[c]
            /\ \A i \in DOMAIN log'[c] \ DOMAIN log[c] :
                 log'[c][i].op \in {"onMessage", "drawLine", "clearRect",
                                     "console.error", "throw"}]_vars
  /\ [](\A c \in Users : \A r \in Range(log[c]) :
          /\ r.via \in {"inbound", "history"} => ~Outbound(r)
          /\ Outbound(r) => (r.via = IF r.op = "GET" THEN "mount" ELSE "local"))

\* u2 painted a stored segment from history and wiped on u1's clear, and
\* the topic holds u1's two frames and nothing else.
OnlyLocalOutboundWitness ==
  /\ \E r \in Range(log["u2"]) : r.op = "drawLine" /\ r.via = "history"
  /\ \E r \in Range(log["u2"]) : r.op = "clearRect" /\ r.via = "inbound"
  /\ Len(topic) = 2
  /\ \A k \in 1..2 : topic[k].userId = "u1"

\* C19 (clear has no rollback): when the DELETE of a clear fails, the
\* promise handleClear returned is rejected and that is all: the step
\* changes no surface, sends nothing and leaves the store as it was; the
\* wipe, the published clear and the one DELETE of that clear stay as they
\* were, and no handler logs anything for that clear afterwards.
Rejected(c) == {r.id : r \in {q \in Range(log[c]) : q.op = "reject"}}

ClearNoRollback ==
  /\ [][StoreDeleteFail =>
          \E d \in deletes :
            /\ deletes' = deletes \ {d}
            /\ log' = [log EXCEPT ![d.by] =
                         Append(@, Effect("reject", "local", d.id))]
            /\ UNCHANGED <<lifeVars, histVars, uiVars, inbox, store, topic,
                           missed, nextId>>]_vars
  /\ [](\A c \in Users : \A id \in Rejected(c) :
          LET wipe == At(c, "clearRect", "local", id)
              sent == At(c, "publish clear", "local", id)
              del == At(c, "DELETE", "local", id)
              rej == At(c, "reject", "local", id)
          IN /\ Cardinality(wipe) = 1 /\ Cardinality(del) = 1
             /\ Cardinality(rej) = 1 /\ Cardinality(sent) <= 1
             /\ sent # {} => (WasSent(id) /\ Sent(id) = ClearEnvelope(c, id))
             /\ {i \in DOMAIN log[c] : log[c][i].id = id /\ log[c][i].via = "local"}
                  = wipe \cup sent \cup del \cup rej
             /\ \A i \in wipe \cup sent \cup del : \A j \in rej : i < j)

\* u1 cleared while connected, u2 wiped on the clear, and the DELETE
\* failed.
ClearNoRollbackWitness ==
  \E id \in Rejected("u1") :
    /\ At("u1", "publish clear", "local", id) # {}
    /\ At("u2", "clearRect", "inbound", id) # {}

\* C20 (gesture boundaries): mouse-down, mouse-up and mouse-leave paint and
\* publish nothing; a step that paints or publishes a local segment is a
\* mouse-move taken while isDrawing holds, that is after a mouse-down and
\* before the next mouse-up or mouse-leave; mouse-down puts the anchor at
\* its own position, so the first segment of every gesture starts at the
\* position of that gesture's mouse-down.
IsLocalSegment(r) ==
  r.via = "local" /\ r.op \in {"drawLine", "publish draw"}

DownPositions == {CanvasPos(p) : p \in DownPoints}

GestureBoundaries ==
  /\ [][\A c \in Artists :
          ((\E p \in DownPoints : startDrawing(c, p)) \/ stopDrawing(c)) =>
            UNCHANGED <<log, netVars, nextId>>]_vars
  /\ [][\A c \in Artists : \A p \in DownPoints :
          startDrawing(c, p) =>
            isDrawing'[c] /\ lastPos'[c] = CanvasPos(p) /\ gesture'[c] = <<>>]_vars
  /\ [][\A c \in Artists :
          stopDrawing(c) => ~isDrawing'[c] /\ lastPos'[c] = lastPos[c]]_vars
  /\ [][\A c \in Users :
          (\E i \in DOMAIN log'[c] \ DOMAIN log[c] : IsLocalSegment(log'[c][i]))
            => /\ isDrawing[c] /\ isDrawing'[c]
               /\ \E p \in MovePoints : draw(c, p)]_vars
  /\ [](\A c \in Users :
          /\ gesture[c] # <<>> => isDrawing[c]
          /\ (isDrawing[c] /\ gesture[c] = <<>>) =>
               lastPos[c] \in DownPositions
          /\ gesture[c] # <<>> =>
               LET first == Painted(c, gesture[c][1]) IN
                 [x |-> first.startX, y |-> first.startY] \in DownPositions)

\* u1 painted a segment, pressed the mouse again and painted another: the
\* second starts at the new mouse-down position, which is not where the
\* first one ended.
GestureBoundariesWitness ==
  \E id \in Own("u1") :
    /\ gesture["u1"] # <<>>
    /\ id < gesture["u1"][1]
    /\ At("u1", "drawLine", "local", id) # {}
    /\ LET prev == Painted("u1", id)
           first == Painted("u1", gesture["u1"][1])
       IN /\ <<first.startX, first.startY>> # <<prev.endX, prev.endY>>
          /\ [x |-> first.startX, y |-> first.startY] \in DownPositions

====
